---- MODULE Spec2Model ----
(***************************************************************************)
(* Natural Capture: the classifier (parser.py) and the router (router.py)  *)
(* of src/clawdbot/skills/natural-capture.                                 *)
(*                                                                         *)
(* Text is a sequence of one-character strings.  A regular expression is a *)
(* sequence of atoms: a one-character string is a literal, and the atoms   *)
(* "\\s*", "\\s+", "s?", "[- ]?" and "[^\\s]+" are the quantified classes   *)
(* the source's patterns use.                                              *)
(***************************************************************************)
EXTENDS Naturals, Sequences, FiniteSets, TLC

VARIABLES
    message,     \* the raw text handed to parse_capture
    source,      \* the channel label handed to parse_capture
    capture,     \* the Capture being processed (NoCapture before parsing)
    result,      \* the RouteResult of the last route call (NoResult before)
    cause,       \* the step that made the last route call fail, or "none"
    pc,          \* where the pipeline stands
    today,       \* the local calendar date (a day number)
    ideas_file,  \* the ideas journal: [exists, data]
    daily_notes, \* the daily journals, by day number: [exists, data]
    tasks,       \* the committed rows of the tasks table
    open_conns,  \* task-store connections a route call opened and returned
                 \* without calling close() on them
    calls,       \* route calls made so far
    response,    \* the message format_response built for the user
    writers      \* the route calls of separate processes, each at its step

vars == <<message, source, capture, result, cause, pc, today, ideas_file,
          daily_notes, tasks, open_conns, calls, response, writers>>

----------------------------------------------------------------------------
(* Bounds of the model. *)

\* lexemes per input message
MaxLen == 3

\* route calls per behaviour
MaxCalls == 2

\* phrases per spoken message
MaxParts == 2

\* last day number the clock reaches
MaxDay == 1

----------------------------------------------------------------------------
(* Characters and strings. *)

Whitespace == {" ", "\t", "\n"}

QuoteChars == {"\"", "'"}

UpperToLower ==
    ("A" :> "a") @@ ("B" :> "b") @@ ("C" :> "c") @@ ("D" :> "d") @@
    ("E" :> "e") @@ ("F" :> "f") @@ ("G" :> "g") @@ ("H" :> "h") @@
    ("I" :> "i") @@ ("J" :> "j") @@ ("K" :> "k") @@ ("L" :> "l") @@
    ("M" :> "m") @@ ("N" :> "n") @@ ("O" :> "o") @@ ("P" :> "p") @@
    ("Q" :> "q") @@ ("R" :> "r") @@ ("S" :> "s") @@ ("T" :> "t") @@
    ("U" :> "u") @@ ("V" :> "v") @@ ("W" :> "w") @@ ("X" :> "x") @@
    ("Y" :> "y") @@ ("Z" :> "z")

\* re.IGNORECASE folds the text's letters; the patterns are lower-case
Fold(c, ignorecase) ==
    IF ignorecase /\ c \in DOMAIN UpperToLower THEN UpperToLower[c] ELSE c

\* s[i:] of Python, i a 1-based position (Len(s)+1 gives the empty text)
SliceFrom(s, i) == IF i > Len(s) THEN <<>> ELSE SubSeq(s, i, Len(s))

\* the first n characters dropped: s[n:] of Python
DropFirst(s, n) == SliceFrom(s, n + 1)

RECURSIVE lstrip(_, _)
lstrip(s, chars) ==
    IF s # <<>> /\ Head(s) \in chars THEN lstrip(Tail(s), chars) ELSE s

RECURSIVE rstrip(_, _)
rstrip(s, chars) ==
    IF s # <<>> /\ s[Len(s)] \in chars
    THEN rstrip(SubSeq(s, 1, Len(s) - 1), chars)
    ELSE s

\* str.strip(chars): every leading and trailing character of chars removed
StripChars(s, chars) == rstrip(lstrip(s, chars), chars)

\* str.strip(): leading and trailing whitespace removed
strip(s) == StripChars(s, Whitespace)

startswith(s, c) == s # <<>> /\ Head(s) = c

----------------------------------------------------------------------------
(* Regular expressions: re.search, leftmost match, greedy quantifiers.     *)
(* In every pattern of the source a quantified class is followed by a      *)
(* character outside the class (or ends the pattern), so the greedy choice *)
(* is the only one that can match and no backtracking is needed.           *)

OptionalClass == ("s?" :> {"s"}) @@ ("[- ]?" :> {"-", " "})

\* the first position at or after i whose character is not in (or, with
\* inside = FALSE, is in) the class
RECURSIVE SkipClass(_, _, _, _)
SkipClass(s, i, class, inside) ==
    IF i <= Len(s) /\ ((s[i] \in class) = inside)
    THEN SkipClass(s, i + 1, class, inside)
    ELSE i

\* match atoms k.. of pat at position i of s: the position after the match,
\* or 0 when there is none
RECURSIVE MatchFrom(_, _, _, _, _)
MatchFrom(pat, k, s, i, ignorecase) ==
    IF k > Len(pat) THEN i
    ELSE LET a == pat[k]
             more == i <= Len(s)
         IN CASE a = "\\s*" ->
                   MatchFrom(pat, k + 1, s, SkipClass(s, i, Whitespace, TRUE),
                             ignorecase)
              [] a = "\\s+" ->
                   IF more /\ s[i] \in Whitespace
                   THEN MatchFrom(pat, k + 1, s,
                                  SkipClass(s, i, Whitespace, TRUE), ignorecase)
                   ELSE 0
              [] a = "[^\\s]+" ->
                   IF more /\ s[i] \notin Whitespace
                   THEN MatchFrom(pat, k + 1, s,
                                  SkipClass(s, i, Whitespace, FALSE), ignorecase)
                   ELSE 0
              [] a \in DOMAIN OptionalClass ->
                   IF more /\ Fold(s[i], ignorecase) \in OptionalClass[a]
                   THEN MatchFrom(pat, k + 1, s, i + 1, ignorecase)
                   ELSE MatchFrom(pat, k + 1, s, i, ignorecase)
              [] OTHER ->
                   IF more /\ Fold(s[i], ignorecase) = a
                   THEN MatchFrom(pat, k + 1, s, i + 1, ignorecase)
                   ELSE 0

NoMatch == [start |-> 0, end |-> 0]

\* pattern.search(s): the leftmost match at or after position i, as the
\* position of its first character and the position after its last
RECURSIVE SearchFrom(_, _, _, _)
SearchFrom(pat, s, i, ignorecase) ==
    IF i > Len(s) THEN NoMatch
    ELSE LET e == MatchFrom(pat, 1, s, i, ignorecase)
         IN IF e # 0 THEN [start |-> i, end |-> e]
            ELSE SearchFrom(pat, s, i + 1, ignorecase)

search(pat, s, ignorecase) == SearchFrom(pat, s, 1, ignorecase)

\* match.group(0)
group0(s, m) == SubSeq(s, m.start, m.end - 1)

----------------------------------------------------------------------------
(* parser.py: the data model. *)

\* CaptureType, in declaration order
CaptureType ==
    <<"idea", "todo", "note", "reminder", "bookmark", "quote", "task",
      "brain_dump", "unknown">>

CaptureTypes == {CaptureType[i] : i \in DOMAIN CaptureType}

\* Python's None, for the Optional[str] fields project and due_date
None == <<"<None>">>

\* date.isoformat() of day number d: the text YYYY-MM-DD naming that day
isoformat(d) == <<"iso", d>>

\* the dataclass Capture with its defaults
Capture(capture_type, content, prefix, src) ==
    [capture_type |-> capture_type, content |-> content, prefix |-> prefix,
     project |-> None, due_date |-> None, source |-> src]

NoCapture == Capture("<none>", <<>>, <<>>, "unknown")

----------------------------------------------------------------------------
(* parser.py: the pattern tables, in the order the dictionaries list them. *)

PREFIX_PATTERNS == <<
    [type |-> "idea", patterns |-> <<
        <<"i", "d", "e", "a", "\\s*", ":">>,
        <<"t", "h", "o", "u", "g", "h", "t", "\\s*", ":">>,
        <<"b", "r", "a", "i", "n", "s", "t", "o", "r", "m", "\\s*", ":">>,
        <<"i", "d", "e", "a", "s?">> >>],
    [type |-> "todo", patterns |-> <<
        <<"t", "o", "d", "o", "\\s*", ":">>,
        <<"t", "a", "s", "k", "\\s*", ":">>,
        <<"t", "o", "[- ]?", "d", "o", "\\s*", ":">> >>],
    [type |-> "note", patterns |-> <<
        <<"n", "o", "t", "e", "\\s*", ":">>,
        <<"n", "o", "t", "e", "s?">>,
        <<"n", "o", "t", "e", "\\s+", "t", "o", "\\s+", "s", "e", "l", "f",
          "\\s*", ":">>,
        <<"c", "a", "p", "t", "u", "r", "e", "\\s*", "t", "h", "i", "s",
          "\\s*", ":">>,
        <<"r", "e", "m", "e", "m", "b", "e", "r", "\\s+", "t", "h", "a", "t",
          "\\s*", ":">> >>],
    [type |-> "reminder", patterns |-> <<
        <<"r", "e", "m", "i", "n", "d", "\\s+", "m", "e", "\\s+", "t", "o",
          "\\s+">>,
        <<"r", "e", "m", "i", "n", "d", "e", "r", "\\s*", ":">>,
        <<"d", "o", "n", "'", "t", "\\s+", "l", "e", "t", "\\s+", "m", "e",
          "\\s+", "f", "o", "r", "g", "e", "t", "\\s*">> >>],
    [type |-> "bookmark", patterns |-> <<
        <<"b", "o", "o", "k", "m", "a", "r", "k", "\\s*", ":">>,
        <<"l", "i", "n", "k", "\\s*", ":">>,
        <<"s", "a", "v", "e", "\\s+", "l", "i", "n", "k", "\\s*", ":">> >>],
    [type |-> "quote", patterns |-> <<
        <<"q", "u", "o", "t", "e", "\\s*", ":">>,
        <<"q", "u", "o", "t", "a", "t", "i", "o", "n", "\\s*", ":">>,
        <<"\"">> >>],
    [type |-> "brain_dump", patterns |-> <<
        <<"b", "r", "a", "i", "n", "\\s*", "d", "u", "m", "p", "\\s*", ":">>,
        <<"l", "e", "t", "\\s+", "m", "e", "\\s+", "j", "u", "s", "t", "\\s+",
          "g", "e", "t", "\\s+", "t", "h", "i", "s", "\\s+", "o", "u", "t">>,
        <<"b", "r", "a", "i", "n", "d", "u", "m", "p", "\\s*", ":">> >>] >>

PHRASE_PATTERNS == <<
    [type |-> "todo", patterns |-> <<
        <<"i", "\\s+", "n", "e", "e", "d", "\\s+", "t", "o", "\\s+">>,
        <<"n", "e", "e", "d", "\\s+", "t", "o", "\\s+">>,
        <<"a", "d", "d", "\\s+", "t", "o", "\\s+", "m", "y", "\\s+", "l", "i",
          "s", "t">> >>],
    [type |-> "idea", patterns |-> <<
        <<"w", "h", "a", "t", "\\s+", "i", "f", "\\s+">>,
        <<"i", "\\s+", "j", "u", "s", "t", "\\s+", "r", "e", "a", "l", "i",
          "z", "e", "d">> >>],
    [type |-> "note", patterns |-> <<
        <<"f", "o", "r", "\\s+", "t", "h", "e", "\\s+", "r", "e", "c", "o",
          "r", "d">> >>] >>

\* URL_PATTERN without the "?": only https URLs
URL_PATTERN_HttpsOnly == <<"h", "t", "t", "p", "s", ":", "/", "/", "[^\\s]+">>

\* https?://[^\s]+ , compiled without re.IGNORECASE
URL_PATTERN == <<"h", "t", "t", "p", "s?", ":", "/", "/", "[^\\s]+">>

\* DUE_DATE_PATTERNS listed with today ahead of tomorrow
DUE_DATE_PATTERNS_TodayFirst == <<
    [pattern |-> <<"t", "o", "d", "a", "y">>, days |-> 0],
    [pattern |-> <<"t", "o", "m", "o", "r", "r", "o", "w">>, days |-> 1],
    [pattern |-> <<"n", "e", "x", "t", "\\s+", "w", "e", "e", "k">>,
     days |-> 7] >>

\* the keywords of DUE_DATE_PATTERNS with the days each adds
DUE_DATE_PATTERNS == <<
    [pattern |-> <<"t", "o", "m", "o", "r", "r", "o", "w">>, days |-> 1],
    [pattern |-> <<"t", "o", "d", "a", "y">>, days |-> 0],
    [pattern |-> <<"n", "e", "x", "t", "\\s+", "w", "e", "e", "k">>,
     days |-> 7] >>

----------------------------------------------------------------------------
(* parser.py: CaptureParser. *)

\* FirstMatch without the return inside the loops: the last pattern that
\* matches decides
RECURSIVE FirstMatch_NoReturn(_, _, _, _)
FirstMatch_NoReturn(table, s, t, p) ==
    IF t > Len(table) THEN [type |-> "", m |-> NoMatch]
    ELSE IF p > Len(table[t].patterns)
    THEN FirstMatch_NoReturn(table, s, t + 1, 1)
    ELSE LET later == FirstMatch_NoReturn(table, s, t, p + 1)
             m == search(table[t].patterns[p], s, TRUE)
         IN IF later.m # NoMatch \/ m = NoMatch THEN later
            ELSE [type |-> table[t].type, m |-> m]

\* FirstMatch by position: of all patterns that match, the one whose match
\* starts first in the text decides
RECURSIVE FirstMatch_Leftmost(_, _, _, _)
FirstMatch_Leftmost(table, s, t, p) ==
    IF t > Len(table) THEN [type |-> "", m |-> NoMatch]
    ELSE IF p > Len(table[t].patterns)
    THEN FirstMatch_Leftmost(table, s, t + 1, 1)
    ELSE LET later == FirstMatch_Leftmost(table, s, t, p + 1)
             m == search(table[t].patterns[p], s, TRUE)
         IN IF m # NoMatch /\ (later.m = NoMatch \/ m.start <= later.m.start)
            THEN [type |-> table[t].type, m |-> m]
            ELSE later

\* FirstMatch with pattern.match in place of pattern.search: a pattern
\* matches only where the text begins
RECURSIVE FirstMatch_Anchored(_, _, _, _)
FirstMatch_Anchored(table, s, t, p) ==
    IF t > Len(table) THEN [type |-> "", m |-> NoMatch]
    ELSE IF p > Len(table[t].patterns)
    THEN FirstMatch_Anchored(table, s, t + 1, 1)
    ELSE LET e == MatchFrom(table[t].patterns[p], 1, s, 1, TRUE)
         IN IF e # 0 THEN [type |-> table[t].type, m |-> [start |-> 1, end |-> e]]
            ELSE FirstMatch_Anchored(table, s, t, p + 1)

\* the nested loops over a pattern table: the first pattern, in table
\* order, that matches s, as [type, m], or [type |-> "", m |-> NoMatch]
RECURSIVE FirstMatch(_, _, _, _)
FirstMatch(table, s, t, p) ==
    IF t > Len(table) THEN [type |-> "", m |-> NoMatch]
    ELSE IF p > Len(table[t].patterns) THEN FirstMatch(table, s, t + 1, 1)
    ELSE LET m == search(table[t].patterns[p], s, TRUE)
         IN IF m # NoMatch THEN [type |-> table[t].type, m |-> m]
            ELSE FirstMatch(table, s, t, p + 1)

\* prefix_capture with the fallback counted from where the match starts
prefix_capture_FallbackAtMatch(text, type, m, src) ==
    LET prefix == group0(text, m)
        content == strip(SliceFrom(text, m.end))
    IN Capture(type,
               IF content # <<>> THEN content
               ELSE strip(DropFirst(text, m.start - 1 + Len(prefix))),
               prefix, src)

\* prefix_capture that files a "task" prefix under the type task
prefix_capture_TaskType(text, type, m, src) ==
    LET prefix == group0(text, m)
        content == strip(SliceFrom(text, m.end))
    IN Capture(IF Fold(prefix[1], TRUE) = "t" /\ Fold(prefix[2], TRUE) = "a"
               THEN "task" ELSE type,
               IF content # <<>> THEN content
               ELSE strip(DropFirst(text, Len(prefix))),
               prefix, src)

\* parse, a prefix pattern matched: the prefix is the matched text and the
\* content what follows the match, or what follows the first len(prefix)
\* characters when that is empty
prefix_capture(text, type, m, src) ==
    LET prefix == group0(text, m)
        content == strip(SliceFrom(text, m.end))
    IN Capture(type,
               IF content # <<>> THEN content
               ELSE strip(DropFirst(text, Len(prefix))),
               prefix, src)

\* phrase_capture that drops the phrase as a prefix match drops the prefix
phrase_capture_AfterMatch(text, type, m, src) ==
    Capture(type, strip(SliceFrom(text, m.end)), <<>>, src)

\* parse, a phrase pattern matched: the content starts at the match
phrase_capture(text, type, m, src) ==
    Capture(type, strip(SliceFrom(text, m.start)), <<>>, src)

\* parse, the text holds a URL
url_capture(text, src) == Capture("bookmark", text, <<>>, src)

\* one quote mark removed from each end of s, where there is one
StripOne(s) ==
    LET a == IF s # <<>> /\ Head(s) \in QuoteChars THEN Tail(s) ELSE s
    IN IF a # <<>> /\ a[Len(a)] \in QuoteChars
       THEN SubSeq(a, 1, Len(a) - 1)
       ELSE a

\* quote_capture removing a single quote mark on each side
quote_capture_StripOne(text, src) ==
    Capture("quote", StripOne(text), <<>>, src)

\* parse, the text starts with a quote mark
quote_capture(text, src) ==
    Capture("quote", StripChars(text, QuoteChars), <<>>, src)

\* default_capture keeping the untrimmed default of the enum, unknown
default_capture_Unknown(text, src) == Capture("unknown", text, <<>>, src)

\* parse, nothing matched
default_capture(text, src) == Capture("note", text, <<>>, src)

\* parse with the URL heuristic tried before the phrase patterns
parse_UrlFirst(msg, src) ==
    LET text == strip(msg)
        pre == FirstMatch(PREFIX_PATTERNS, text, 1, 1)
        phr == FirstMatch(PHRASE_PATTERNS, text, 1, 1)
    IN IF pre.m # NoMatch THEN prefix_capture(text, pre.type, pre.m, src)
       ELSE IF search(URL_PATTERN, text, FALSE) # NoMatch
       THEN url_capture(text, src)
       ELSE IF phr.m # NoMatch THEN phrase_capture(text, phr.type, phr.m, src)
       ELSE IF startswith(text, "\"") \/ startswith(text, "'")
       THEN quote_capture(text, src)
       ELSE default_capture(text, src)

\* CaptureParser.parse
parse(msg, src) ==
    LET text == strip(msg)
        pre == FirstMatch(PREFIX_PATTERNS, text, 1, 1)
        phr == FirstMatch(PHRASE_PATTERNS, text, 1, 1)
    IN IF pre.m # NoMatch THEN prefix_capture(text, pre.type, pre.m, src)
       ELSE IF phr.m # NoMatch THEN phrase_capture(text, phr.type, phr.m, src)
       ELSE IF search(URL_PATTERN, text, FALSE) # NoMatch
       THEN url_capture(text, src)
       ELSE IF startswith(text, "\"") \/ startswith(text, "'")
       THEN quote_capture(text, src)
       ELSE default_capture(text, src)

\* PROJECT_TAG_PATTERN, \[Project:\s*([^\]]+)\] with re.IGNORECASE: the
\* opening of the tag
PROJECT_TAG_OPEN == <<"[", "p", "r", "o", "j", "e", "c", "t", ":">>

\* the leftmost tag opening at or after position i that is followed by at
\* least one character other than "]" and then by "]": group(1) is what
\* [^\]]+ took, which after strip() is the text between ":" and "]" stripped
RECURSIVE ProjectFrom(_, _)
ProjectFrom(content, i) ==
    LET m == SearchFrom(PROJECT_TAG_OPEN, content, i, TRUE)
        close == SkipClass(content, m.end, {"]"}, FALSE)
    IN IF m = NoMatch THEN None
       ELSE IF close > m.end /\ close <= Len(content)
       THEN strip(SubSeq(content, m.end, close - 1))
       ELSE ProjectFrom(content, m.start + 1)

\* extract_project_tag with match in place of search: only a tag that opens
\* the content is seen
extract_project_tag_Anchored(content) ==
    IF SearchFrom(PROJECT_TAG_OPEN, content, 1, TRUE).start = 1
    THEN ProjectFrom(content, 1)
    ELSE None

\* CaptureParser.extract_project_tag
extract_project_tag(content) == ProjectFrom(content, 1)

\* _parse_relative_date without the timedelta: always the day itself
parse_relative_date_Today(days, now) == isoformat(now)

\* CaptureParser._parse_relative_date, evaluated on day number now
parse_relative_date(days, now) ==
    isoformat(IF days > 0 THEN now + days ELSE now)

\* CaptureParser.extract_due_date, evaluated on day number now
RECURSIVE DueDateFrom(_, _, _)
DueDateFrom(content, k, now) ==
    IF k > Len(DUE_DATE_PATTERNS) THEN None
    ELSE IF search(DUE_DATE_PATTERNS[k].pattern, content, TRUE) # NoMatch
    THEN parse_relative_date(DUE_DATE_PATTERNS[k].days, now)
    ELSE DueDateFrom(content, k + 1, now)

extract_due_date(content, now) == DueDateFrom(content, 1, now)

\* parse_capture with the two passes run over the message
parse_capture_FromMessage(msg, src, now) ==
    LET c == parse(msg, src)
    IN [c EXCEPT !.project = extract_project_tag(strip(msg)),
                 !.due_date = extract_due_date(strip(msg), now)]

\* parse_capture: parse, then the two passes over the resulting content
parse_capture(msg, src, now) ==
    LET c == parse(msg, src)
    IN [c EXCEPT !.project = extract_project_tag(c.content),
                 !.due_date = extract_due_date(c.content, now)]

----------------------------------------------------------------------------
(* The inputs: messages are built from a lexicon that holds a trigger of   *)
(* each rule class, in both letter cases, with separators and quote marks. *)

Lexicon == {
    <<" ">>, <<":">>, <<"\"">>, <<"'">>, <<"x">>,
    <<"i", "d", "e", "a">>,
    <<"T", "o", "d", "o">>,
    <<"n", "o", "t", "e", "s">>,
    <<"n", "e", "e", "d", " ", "t", "o">>,
    <<"h", "t", "t", "p", ":", "/", "/">>,
    <<"h", "t", "t", "p", "s", ":", "/", "/">> }

RECURSIVE Flatten(_)
Flatten(ws) == IF ws = <<>> THEN <<>> ELSE Head(ws) \o Flatten(Tail(ws))

Messages ==
    UNION {{Flatten(ws) : ws \in [1..n -> Lexicon]} : n \in 0..MaxLen}

Sources == {"unknown", "telegram"}

----------------------------------------------------------------------------
(* router.py: the data model and the sinks. *)

\* Python's None for RouteResult.error, an Optional[str]
NoError == "<None>"

\* the dataclass RouteResult
RouteResult(success, destination, error) ==
    [success |-> success, destination |-> destination, error |-> error]

NoResult == RouteResult(FALSE, "", "")

\* CaptureRouter.__init__ with its default arguments
memory_dir == "/home/liam/clawd/memory"

ideas_path == memory_dir \o "/ideas.md"

para_db == "/home/liam/clawd/memory/para.sqlite"

\* datetime.now().strftime("%Y-%m-%d") on day number d
strftime(d) == "day-" \o ToString(d)

\* note_file without the date: one journal for all days
note_file_Undated(d) == memory_dir \o "/notes.md"

\* os.path.join(self.memory_dir, f"{today}.md")
note_file(d) == memory_dir \o "/" \o strftime(d) \o ".md"

\* a file of the file system: absent, or the chunks written to it in order
AbsentFile == [exists |-> FALSE, data |-> <<>>]

\* what _create_ideas_file writes
IdeasHeader == [kind |-> "header", title |-> "# Ideas & Things to Explore"]

\* what _create_daily_note writes
DailyHeader(date) == [kind |-> "header", title |-> "# Daily Notes - " \o date]

\* the title lengths of the formatted entries and of a task row
IDEA_TITLE_LEN == 100

LINK_TITLE_LEN == 80

TASK_TITLE_LEN == 100

\* s[:n], with "..." added when s is longer than n
Elided(s, n) ==
    IF Len(s) > n THEN SubSeq(s, 1, n) \o <<".", ".", ".">> ELSE s

\* s[:n]
Truncated(s, n) == IF Len(s) > n THEN SubSeq(s, 1, n) ELSE s

\* the line written only when the source is known
SourceLine(c) == IF c.source # "unknown" THEN <<c.source>> ELSE <<>>

\* the line written only when capture.project is truthy
ProjectLine(c) ==
    IF c.project # None /\ c.project # <<>> THEN <<c.project>> ELSE <<>>

\* what a formatting or conversion step yields: a value, or the text of the
\* exception it raised
Value(v) == [ok |-> TRUE, value |-> v, error |-> NoError]

Raised(text) == [ok |-> FALSE, value |-> <<>>, error |-> text]

\* _format_idea; len(None) raises TypeError
format_idea(c, date, now) ==
    IF c.content = None THEN Raised("object of type 'NoneType' has no len()")
    ELSE Value([kind |-> "idea", date |-> date,
                title |-> Elided(c.content, IDEA_TITLE_LEN),
                captured |-> now, source |-> SourceLine(c),
                project |-> ProjectLine(c), content |-> c.content])

\* _format_note; an f-string formats None as the text None
format_note(c, now) ==
    Value([kind |-> "note", time |-> now, source |-> SourceLine(c),
           content |-> c.content])

\* _format_bookmark; None has no strip()
format_bookmark(c, date, now) ==
    IF c.content = None
    THEN Raised("'NoneType' object has no attribute 'strip'")
    ELSE LET url == strip(c.content)
         IN Value([kind |-> "bookmark", date |-> date,
                   title |-> Elided(url, LINK_TITLE_LEN), link |-> url,
                   captured |-> now, source |-> SourceLine(c)])

\* _format_quote; len(None) raises TypeError
format_quote(c, date, now) ==
    IF c.content = None THEN Raised("object of type 'NoneType' has no len()")
    ELSE Value([kind |-> "quote", date |-> date,
                title |-> Elided(c.content, LINK_TITLE_LEN),
                quote |-> c.content, captured |-> now,
                source |-> SourceLine(c)])

\* _format_brain_dump
format_brain_dump(c, now) ==
    Value([kind |-> "brain_dump", time |-> now, source |-> SourceLine(c),
           content |-> c.content])

\* datetime.fromisoformat(text).timestamp(): the epoch seconds of local
\* midnight of the day the text names; ValueError on any other text
due_timestamp(due) ==
    IF due[1] = "iso" THEN Value(<<due[2] * 86400>>)
    ELSE Raised("Invalid isoformat string")

\* task_row with the whole content as title
task_row_FullTitle(c, category, due) ==
    IF c.content = None THEN Raised("'NoneType' object is not subscriptable")
    ELSE Value([title |-> c.content,
                description |-> c.content, category |-> category,
                status |-> "pending", due_date |-> due])

\* the tuple bound to the INSERT of _route_task and _route_reminder;
\* None[:100] raises TypeError.  due is <<>> for NULL or <<timestamp>>
task_row(c, category, due) ==
    IF c.content = None THEN Raised("'NoneType' object is not subscriptable")
    ELSE Value([title |-> Truncated(c.content, TASK_TITLE_LEN),
                description |-> c.content, category |-> category,
                status |-> "pending", due_date |-> due])

\* str(e) of the exception a failing file or database operation raises
IOErrorText ==
    ("create" :> "[Errno 13] Permission denied") @@
    ("append" :> "[Errno 28] No space left on device") @@
    ("connect" :> "unable to open database file") @@
    ("insert" :> "no such table: tasks") @@
    ("commit" :> "database is locked")

\* what the environment does to one route call: the operation that fails
\* (or "none"), and whether a failing file write left a part behind
Envs == [fail : {"none"} \cup DOMAIN IOErrorText, partial : BOOLEAN]

----------------------------------------------------------------------------
(* router.py: CaptureRouter.  Each route operator yields the RouteResult  *)
(* with the sinks as the call leaves them.                                 *)

\* the body of a journal branch: create the file with its header when it
\* is absent, format the entry, append it.  Yields the file as left behind,
\* the text of the exception caught (NoError when none) and the step that
\* raised it
JournalWrite(file, header, entry, env) ==
    LET present == IF file.exists THEN file
                   ELSE [exists |-> TRUE, data |-> <<header>>]
    IN IF ~file.exists /\ env.fail = "create"
       THEN [file |-> IF env.partial THEN [exists |-> TRUE, data |-> <<>>]
                      ELSE file,
             error |-> IOErrorText["create"], cause |-> "create"]
       ELSE IF ~entry.ok
       THEN [file |-> present, error |-> entry.error, cause |-> "format"]
       ELSE IF env.fail = "append"
       THEN [file |-> IF env.partial
                      THEN [present EXCEPT !.data =
                               Append(@, [kind |-> "truncated"])]
                      ELSE present,
             error |-> IOErrorText["append"], cause |-> "append"]
       ELSE [file |-> [present EXCEPT !.data = Append(@, entry.value)],
             error |-> NoError, cause |-> "none"]

\* BranchResult with error=str(e) left out of the failure result
BranchResult_NoErrorText(destination, error) ==
    IF error = NoError THEN RouteResult(TRUE, destination, NoError)
    ELSE RouteResult(FALSE, destination, NoError)

\* the return statements of a branch: success without error, or failure
\* with str(e), both naming the branch's destination
BranchResult(destination, error) ==
    IF error = NoError THEN RouteResult(TRUE, destination, NoError)
    ELSE RouteResult(FALSE, destination, error)

\* a route call's outcome on the ideas journal
IdeasOutcome(w) ==
    [result |-> BranchResult(ideas_path, w.error), cause |-> w.cause,
     ideas |-> w.file, daily |-> daily_notes, tasks |-> tasks,
     conns |-> open_conns]

\* DailyOutcome reporting "unknown", the destination of the except clause
\* when note_file is not bound, for every failure
DailyOutcome_UnknownDestination(w) ==
    [result |-> IF w.error = NoError
                THEN RouteResult(TRUE, note_file(today), NoError)
                ELSE RouteResult(FALSE, "unknown", w.error),
     cause |-> w.cause, ideas |-> ideas_file,
     daily |-> [daily_notes EXCEPT ![today] = w.file],
     tasks |-> tasks, conns |-> open_conns]

\* a route call's outcome on today's daily journal
DailyOutcome(w) ==
    [result |-> BranchResult(note_file(today), w.error), cause |-> w.cause,
     ideas |-> ideas_file, daily |-> [daily_notes EXCEPT ![today] = w.file],
     tasks |-> tasks, conns |-> open_conns]

\* a route call's outcome on the task store: the row committed (if any) and
\* whether the connection was left open
TaskOutcome(error, cause_, rows, left_open) ==
    [result |-> BranchResult(para_db, error), cause |-> cause_,
     ideas |-> ideas_file, daily |-> daily_notes, tasks |-> tasks \o rows,
     conns |-> open_conns + (IF left_open THEN 1 ELSE 0)]

route_idea(c, env) ==
    IdeasOutcome(JournalWrite(ideas_file, IdeasHeader,
                              format_idea(c, strftime(today), today), env))

route_bookmark(c, env) ==
    IdeasOutcome(JournalWrite(ideas_file, IdeasHeader,
                              format_bookmark(c, strftime(today), today), env))

route_quote(c, env) ==
    IdeasOutcome(JournalWrite(ideas_file, IdeasHeader,
                              format_quote(c, strftime(today), today), env))

route_note(c, env) ==
    DailyOutcome(JournalWrite(daily_notes[today], DailyHeader(strftime(today)),
                              format_note(c, today), env))

route_brain_dump(c, env) ==
    DailyOutcome(JournalWrite(daily_notes[today], DailyHeader(strftime(today)),
                              format_brain_dump(c, today), env))

\* the due date bound to the INSERT: NULL unless capture.due_date is truthy
DueColumn(c) ==
    IF c.due_date = None THEN Value(<<>>) ELSE due_timestamp(c.due_date)

\* connect, cursor, execute, commit, close: the steps of both task branches
\* from the INSERT on, on an open connection
InsertRow(c, category, due, env) ==
    LET row == task_row(c, category, due)
    IN IF ~row.ok THEN TaskOutcome(row.error, "format", <<>>, TRUE)
       ELSE IF env.fail = "insert"
       THEN TaskOutcome(IOErrorText["insert"], "insert", <<>>, TRUE)
       ELSE IF env.fail = "commit"
       THEN TaskOutcome(IOErrorText["commit"], "commit", <<>>, TRUE)
       ELSE TaskOutcome(NoError, "none", <<row.value>>, FALSE)

\* _route_task: the due date is converted before the connection is opened
route_task(c, env) ==
    LET due == DueColumn(c)
    IN IF ~due.ok THEN TaskOutcome(due.error, "convert", <<>>, FALSE)
       ELSE IF env.fail = "connect"
       THEN TaskOutcome(IOErrorText["connect"], "connect", <<>>, FALSE)
       ELSE InsertRow(c, "task", due.value, env)

\* _route_reminder storing the row the way _route_task does
route_reminder_AsTask(c, env) == route_task(c, env)

\* _route_reminder: the connection is opened before the due date is
\* converted
route_reminder(c, env) ==
    LET due == DueColumn(c)
    IN IF env.fail = "connect"
       THEN TaskOutcome(IOErrorText["connect"], "connect", <<>>, FALSE)
       ELSE IF ~due.ok THEN TaskOutcome(due.error, "convert", <<>>, TRUE)
       ELSE InsertRow(c, "reminder", due.value, env)

\* the else branch of route
route_unknown(c) ==
    [result |-> RouteResult(FALSE, "none",
                            "Unknown capture type: " \o c.capture_type),
     cause |-> "unknown type", ideas |-> ideas_file, daily |-> daily_notes,
     tasks |-> tasks, conns |-> open_conns]

\* route with TASK missing from the todo test: a declared type reaches the
\* else branch
route_TaskUnmapped(c, env) ==
    LET t == c.capture_type
    IN IF t = "idea" THEN route_idea(c, env)
       ELSE IF t = "todo" THEN route_task(c, env)
       ELSE IF t = "note" THEN route_note(c, env)
       ELSE IF t = "reminder" THEN route_reminder(c, env)
       ELSE IF t = "bookmark" THEN route_bookmark(c, env)
       ELSE IF t = "quote" THEN route_quote(c, env)
       ELSE IF t = "brain_dump" THEN route_brain_dump(c, env)
       ELSE route_unknown(c)

\* route with brain dumps sent to the ideas journal
route_BrainDumpToIdeas(c, env) ==
    LET t == c.capture_type
    IN IF t \in {"idea", "brain_dump"} THEN route_idea(c, env)
       ELSE IF t \in {"todo", "task"} THEN route_task(c, env)
       ELSE IF t = "note" THEN route_note(c, env)
       ELSE IF t = "reminder" THEN route_reminder(c, env)
       ELSE IF t = "bookmark" THEN route_bookmark(c, env)
       ELSE IF t = "quote" THEN route_quote(c, env)
       ELSE route_unknown(c)

\* route with a note falling through into the idea branch as well
route_NoteFallsThrough(c, env) ==
    LET t == c.capture_type
    IN IF t = "idea" THEN route_idea(c, env)
       ELSE IF t \in {"todo", "task"} THEN route_task(c, env)
       ELSE IF t = "note"
       THEN [route_note(c, env) EXCEPT !.ideas = route_idea(c, env).ideas]
       ELSE IF t = "reminder" THEN route_reminder(c, env)
       ELSE IF t = "bookmark" THEN route_bookmark(c, env)
       ELSE IF t = "quote" THEN route_quote(c, env)
       ELSE IF t = "brain_dump" THEN route_brain_dump(c, env)
       ELSE route_unknown(c)

\* CaptureRouter.route
route(c, env) ==
    LET t == c.capture_type
    IN IF t = "idea" THEN route_idea(c, env)
       ELSE IF t \in {"todo", "task"} THEN route_task(c, env)
       ELSE IF t = "note" THEN route_note(c, env)
       ELSE IF t = "reminder" THEN route_reminder(c, env)
       ELSE IF t = "bookmark" THEN route_bookmark(c, env)
       ELSE IF t = "quote" THEN route_quote(c, env)
       ELSE IF t = "brain_dump" THEN route_brain_dump(c, env)
       ELSE route_unknown(c)

----------------------------------------------------------------------------
(* main.py: the message shown to the user. *)

\* the characters of a text joined into one string
RECURSIVE str(_)
str(s) == IF s = <<>> THEN "" ELSE Head(s) \o str(Tail(s))

\* the text of a due_date inside an f-string: the ISO text of its day, or
\* the text itself when it is no ISO date
DateText(due) == IF due[1] = "iso" THEN strftime(due[2]) ELSE "soon"

\* the dictionary responses of format_response
responses ==
    ("idea" :> "Got it. Added to ideas.") @@
    ("todo" :> "Got it. Added task.") @@
    ("note" :> "Noted.") @@
    ("reminder" :> "Got it. Set reminder.") @@
    ("bookmark" :> "Saved the link.") @@
    ("quote" :> "Captured the quote.") @@
    ("brain_dump" :> "Got it all.")

NoResponse == ""

\* format_response with the apology of the failure branch worded as
\* "could not capture that: "
format_response_CouldNot(c, r) ==
    IF ~r.success
    THEN "could not capture that: " \o
         (IF r.error = NoError THEN "None" ELSE r.error)
    ELSE (IF c.capture_type \in DOMAIN responses
          THEN responses[c.capture_type] ELSE "Got it.")
         \o (IF c.project # None /\ c.project # <<>>
             THEN " Project: " \o str(c.project) ELSE "")
         \o (IF c.due_date # None
             THEN " Due: " \o DateText(c.due_date) ELSE "")

\* format_response
format_response(c, r) ==
    IF ~r.success
    THEN "Sorry, couldn't capture that: " \o
         (IF r.error = NoError THEN "None" ELSE r.error)
    ELSE (IF c.capture_type \in DOMAIN responses
          THEN responses[c.capture_type] ELSE "Got it.")
         \o (IF c.project # None /\ c.project # <<>>
             THEN " Project: " \o str(c.project) ELSE "")
         \o (IF c.due_date # None
             THEN " Due: " \o DateText(c.due_date) ELSE "")

----------------------------------------------------------------------------
(* The pipeline of main.py: capture_message parses a message and routes    *)
(* the capture.                                                            *)

Days == 0..MaxDay

EmptySinks ==
    /\ ideas_file = AbsentFile
    /\ daily_notes = [d \in Days |-> AbsentFile]
    /\ tasks = <<>>
    /\ open_conns = 0

\* the processes that call route at the same time
Writers == {"a", "b"}

\* no process is inside a route call
NoWriters ==
    [w \in Writers |-> [pc |-> "idle", capture |-> NoCapture,
                        result |-> NoResult]]

Init ==
    /\ message \in Messages
    /\ source \in Sources
    /\ capture = NoCapture
    /\ result = NoResult
    /\ cause = "none"
    /\ pc = "received"
    /\ today = 0
    /\ calls = 0
    /\ response = NoResponse
    /\ EmptySinks
    /\ writers = NoWriters

\* capture_message, first half: parse_capture(message, source)
Classify ==
    /\ pc = "received"
    /\ capture' = parse_capture(message, source, today)
    /\ pc' = "parsed"
    /\ UNCHANGED <<message, source, result, cause, today, ideas_file,
                   daily_notes, tasks, open_conns, calls, response>>
    /\ UNCHANGED writers

\* capture_message, second half, and route_capture: router.route(capture)
Route ==
    /\ pc = "parsed"
    /\ \E env \in Envs :
          LET o == route(capture, env)
          IN /\ result' = o.result
             /\ cause' = o.cause
             /\ ideas_file' = o.ideas
             /\ daily_notes' = o.daily
             /\ tasks' = o.tasks
             /\ open_conns' = o.conns
    /\ pc' = "routed"
    /\ calls' = calls + 1
    /\ UNCHANGED <<message, source, capture, today, response>>
    /\ UNCHANGED writers

Next == Classify \/ Route

Spec == Init /\ [][Next]_vars

----------------------------------------------------------------------------
(* The router called directly, as route_capture allows: any Capture, call  *)
(* after call, while the calendar date advances.                           *)

\* a due_date text that is no ISO date
MalformedDate == <<"text", 0>>

\* a content one character longer than the title of a task row
LongContent ==
    [i \in 1..(TASK_TITLE_LEN + 1) |->
        IF i <= TASK_TITLE_LEN THEN "x" ELSE "y"]

\* the Captures handed to route: every type with ordinary contents, and
\* the values the dataclass admits without checking them
RouteCaptures ==
    {[capture_type |-> t, content |-> <<"x">>, prefix |-> <<>>,
      project |-> p, due_date |-> None, source |-> s] :
        t \in CaptureTypes, p \in {None}, s \in {"telegram"}}
    \cup
    {[capture_type |-> t, content |-> <<"x">>, prefix |-> <<>>,
      project |-> None, due_date |-> d, source |-> "unknown"] :
        t \in {"todo", "task", "reminder", "note"},
        d \in {isoformat(1), MalformedDate}}
    \cup
    {[capture_type |-> t, content |-> None, prefix |-> <<>>,
      project |-> <<"A">>, due_date |-> None, source |-> "unknown"] :
        t \in {"idea", "bookmark", "task", "brain_dump"}}
    \cup
    {[capture_type |-> t, content |-> LongContent, prefix |-> <<>>,
      project |-> None, due_date |-> isoformat(0), source |-> "unknown"] :
        t \in {"todo", "reminder"}}

InitRoute ==
    /\ message = <<>>
    /\ source = "unknown"
    /\ capture \in RouteCaptures
    /\ result = NoResult
    /\ cause = "none"
    /\ pc = "parsed"
    /\ today = 0
    /\ calls = 0
    /\ response = NoResponse
    /\ EmptySinks
    /\ writers = NoWriters

\* the caller hands the next Capture to route
NextCall ==
    /\ pc = "routed"
    /\ calls < MaxCalls
    /\ capture' \in RouteCaptures
    /\ pc' = "parsed"
    /\ UNCHANGED <<message, source, result, cause, today, ideas_file,
                   daily_notes, tasks, open_conns, calls, response>>
    /\ UNCHANGED writers

\* midnight passes between two calls
Tick ==
    /\ pc = "routed"
    /\ today < MaxDay
    /\ today' = today + 1
    /\ UNCHANGED <<message, source, capture, result, cause, pc, ideas_file,
                   daily_notes, tasks, open_conns, calls, response>>
    /\ UNCHANGED writers

NextRoute == Route \/ NextCall \/ Tick

SpecRoute == InitRoute /\ [][NextRoute]_vars

----------------------------------------------------------------------------
(* process_and_respond of main.py on spoken messages: phrases that carry a *)
(* project tag, a due-date keyword, triggers of each rule class and the    *)
(* scenarios of test_capture.py, parsed (and parsed again) on a day of the *)
(* calendar, routed, and answered.                                         *)

Phrases == {
    <<"[", "P", "r", "o", "j", "e", "c", "t", ":", " ", "A", "t", "l", "a",
      "s", "]", " ", "s", "h", "i", "p", " ", "t", "h", "e", " ", "r", "e",
      "p", "o", "r", "t">>,
    <<"[", "P", "R", "O", "J", "E", "C", "T", ":", " ", "]">>,
    <<" ", "t", "o", "m", "o", "r", "r", "o", "w", " ">>,
    <<"t", "o", "d", "o", ":", " ">>,
    <<" ", "i", "d", "e", "a">>,
    <<"n", "e", "e", "d", " ", "t", "o", " ", "x", " ">>,
    <<"w", "h", "a", "t", " ", "i", "f", " ">>,
    <<"h", "t", "t", "p", ":", "/", "/", "a", " ">>,
    <<"'">> }

\* the messages of the end-to-end scenarios, said as they are
Scenarios == {
    <<"r", "e", "m", "i", "n", "d", " ", "m", "e", " ", "t", "o", " ", "c",
      "a", "l", "l", " ", "J", "o", "h", "n", " ", "t", "o", "m", "o", "r",
      "r", "o", "w">>,
    <<"\"", "s", "i", "m", "p", "l", "i", "c", "i", "t", "y", " ", "i", "s",
      " ", "t", "h", "e", " ", "u", "l", "t", "i", "m", "a", "t", "e", " ",
      "s", "o", "p", "h", "i", "s", "t", "i", "c", "a", "t", "i", "o", "n",
      "\"">>,
    <<"t", "a", "s", "k", ":", " ", "r", "e", "v", "i", "e", "w", " ", "c",
      "o", "d", "e", " ", "c", "h", "a", "n", "g", "e", "s">> }

Utterances ==
    Scenarios \cup
    UNION {{Flatten(ws) : ws \in [1..n -> Phrases]} : n \in 0..MaxParts}

InitRespond ==
    /\ message \in Utterances
    /\ source \in Sources
    /\ capture = NoCapture
    /\ result = NoResult
    /\ cause = "none"
    /\ pc = "received"
    /\ today = 0
    /\ calls = 0
    /\ response = NoResponse
    /\ EmptySinks
    /\ writers = NoWriters

\* Reclassify with a parser that keeps the content of its last call and
\* parses that
Reclassify_FromContent ==
    /\ pc = "parsed"
    /\ capture' = parse_capture(capture.content, source, today)
    /\ UNCHANGED <<message, source, result, cause, pc, today, ideas_file,
                   daily_notes, tasks, open_conns, calls, response>>
    /\ UNCHANGED writers

\* the caller parses the same message a second time
Reclassify ==
    /\ pc = "parsed"
    /\ capture' = parse_capture(message, source, today)
    /\ UNCHANGED <<message, source, result, cause, pc, today, ideas_file,
                   daily_notes, tasks, open_conns, calls, response>>
    /\ UNCHANGED writers

\* midnight passes before the message is parsed or routed
Midnight ==
    /\ pc \in {"received", "parsed"}
    /\ today < MaxDay
    /\ today' = today + 1
    /\ UNCHANGED <<message, source, capture, result, cause, pc, ideas_file,
                   daily_notes, tasks, open_conns, calls, response>>
    /\ UNCHANGED writers

\* process_and_respond, last line: format_response(capture, result)
Respond ==
    /\ pc = "routed"
    /\ response' = format_response(capture, result)
    /\ pc' = "responded"
    /\ UNCHANGED <<message, source, capture, result, cause, today,
                   ideas_file, daily_notes, tasks, open_conns, calls>>
    /\ UNCHANGED writers

NextRespond == Classify \/ Reclassify \/ Midnight \/ Route \/ Respond

SpecRespond == InitRespond /\ [][NextRespond]_vars

----------------------------------------------------------------------------
(* process_and_respond on messages that name a day: the keywords of        *)
(* DUE_DATE_PATTERNS in either letter case and in any order, with a prefix *)
(* trigger and a word that is none of them.                                *)

DueWords == {
    <<"t", "o", "m", "o", "r", "r", "o", "w", " ">>,
    <<"T", "o", "d", "a", "y", " ">>,
    <<"n", "e", "x", "t", " ", " ", "W", "e", "e", "k", " ">>,
    <<"n", "e", "x", "t", " ">>,
    <<"t", "o", "d", "o", ":", " ">>,
    <<"x", " ">> }

DueUtterances ==
    UNION {{Flatten(ws) : ws \in [1..n -> DueWords]} : n \in 0..(MaxParts + 1)}

InitDue ==
    /\ message \in DueUtterances
    /\ source \in Sources
    /\ capture = NoCapture
    /\ result = NoResult
    /\ cause = "none"
    /\ pc = "received"
    /\ today = 0
    /\ calls = 0
    /\ response = NoResponse
    /\ EmptySinks
    /\ writers = NoWriters

SpecDue == InitDue /\ [][NextRespond]_vars

----------------------------------------------------------------------------
(* Two processes inside a journal branch of route at the same time, on     *)
(* journals that are absent at first.  Each process takes the steps of the *)
(* branch one system call at a time: os.path.exists, open(path, "w"), the  *)
(* write of the header when that file is closed, and open(path, "a") with  *)
(* the write of the block.  No call fails.                                 *)

\* the capture types of the journal branches
JournalTypes == {"idea", "bookmark", "quote", "note", "brain_dump"}

\* what process w captures: a text of its own, of any journal type
RaceCaptures(w) ==
    {[capture_type |-> t, content |-> <<w>>, prefix |-> <<>>,
      project |-> None, due_date |-> None, source |-> "unknown"] :
        t \in JournalTypes}

\* the branch writes to the ideas journal (or else to today's daily journal)
ToIdeas(c) == c.capture_type \in {"idea", "bookmark", "quote"}

JournalOf(c) == IF ToIdeas(c) THEN ideas_file ELSE daily_notes[today]

HeaderOf(c) == IF ToIdeas(c) THEN IdeasHeader ELSE DailyHeader(strftime(today))

PathOf(c) == IF ToIdeas(c) THEN ideas_path ELSE note_file(today)

\* the block the branch formats for capture c
BlockOf(c) ==
    CASE c.capture_type = "idea" -> format_idea(c, strftime(today), today).value
      [] c.capture_type = "bookmark" ->
             format_bookmark(c, strftime(today), today).value
      [] c.capture_type = "quote" ->
             format_quote(c, strftime(today), today).value
      [] c.capture_type = "note" -> format_note(c, today).value
      [] OTHER -> format_brain_dump(c, today).value

\* the journal of capture c becomes file; nothing else changes but writers
WriteJournal(c, file) ==
    /\ ideas_file' = IF ToIdeas(c) THEN file ELSE ideas_file
    /\ daily_notes' = IF ToIdeas(c) THEN daily_notes
                      ELSE [daily_notes EXCEPT ![today] = file]
    /\ UNCHANGED <<message, source, capture, result, cause, pc, today, tasks,
                   open_conns, calls, response>>

InitRace ==
    /\ message = <<>>
    /\ source = "unknown"
    /\ capture = NoCapture
    /\ result = NoResult
    /\ cause = "none"
    /\ pc = "racing"
    /\ today = 0
    /\ calls = 0
    /\ response = NoResponse
    /\ EmptySinks
    /\ writers \in [Writers -> UNION {[pc : {"check"}, capture : RaceCaptures(w),
                                       result : {NoResult}] : w \in Writers}]
    /\ \A w \in Writers : writers[w].capture.content = <<w>>

\* if not os.path.exists(path)
CheckExists(w) ==
    /\ writers[w].pc = "check"
    /\ writers' = [writers EXCEPT ![w].pc =
                      IF JournalOf(writers[w].capture).exists THEN "append"
                      ELSE "create"]
    /\ UNCHANGED <<message, source, capture, result, cause, pc, today,
                   ideas_file, daily_notes, tasks, open_conns, calls,
                   response>>

\* open(path, "w"): the file is created, or cut to nothing when another
\* process has made it meanwhile
OpenForWrite(w) ==
    /\ writers[w].pc = "create"
    /\ writers' = [writers EXCEPT ![w].pc = "header"]
    /\ WriteJournal(writers[w].capture, [exists |-> TRUE, data |-> <<>>])

\* leaving the with block of the create function: the buffered header is
\* written at the start of the file, over whatever another process has put
\* there since the open
WriteHeader(w) ==
    LET c == writers[w].capture
        file == JournalOf(c)
    IN /\ writers[w].pc = "header"
       /\ writers' = [writers EXCEPT ![w].pc = "append"]
       /\ WriteJournal(c, [file EXCEPT !.data =
                              IF @ = <<>> THEN <<HeaderOf(c)>>
                              ELSE [@ EXCEPT ![1] = HeaderOf(c)]])

\* open(path, "a"), write of the block, return of success
AppendBlock(w) ==
    LET c == writers[w].capture
        file == JournalOf(c)
    IN /\ writers[w].pc = "append"
       /\ writers' = [writers EXCEPT
                         ![w].pc = "done",
                         ![w].result = BranchResult(PathOf(c), NoError)]
       /\ WriteJournal(c, [exists |-> TRUE,
                           data |-> Append(file.data, BlockOf(c))])

NextRace ==
    \E w \in Writers :
        CheckExists(w) \/ OpenForWrite(w) \/ WriteHeader(w) \/ AppendBlock(w)

SpecRace == InitRace /\ [][NextRace]_vars

----------------------------------------------------------------------------
(* Properties of the classifier, checked under Spec. *)

\* the message has just been classified; no later step changes the capture
Parsed == pc = "parsed"

\* the text all patterns are searched in
Text == strip(message)

\* pattern p of entry t of a pattern table matches s
PatternMatches(table, t, p, s) ==
    search(table[t].patterns[p], s, TRUE) # NoMatch

\* some pattern of entry t of a pattern table matches s
TypeMatches(table, t, s) ==
    \E p \in DOMAIN table[t].patterns : PatternMatches(table, t, p, s)

NoPrefixMatch(s) ==
    \A t \in DOMAIN PREFIX_PATTERNS : ~TypeMatches(PREFIX_PATTERNS, t, s)

NoPhraseMatch(s) ==
    \A t \in DOMAIN PHRASE_PATTERNS : ~TypeMatches(PHRASE_PATTERNS, t, s)

\* the texts the patterns of prefix type t match in s
MatchedTexts(t, s) ==
    {group0(s, search(PREFIX_PATTERNS[t].patterns[p], s, TRUE)) :
        p \in {q \in DOMAIN PREFIX_PATTERNS[t].patterns :
                  PatternMatches(PREFIX_PATTERNS, t, q, s)}}

\* the first listed pattern of prefix type t that matches s
FirstPattern(t, s) ==
    CHOOSE p \in DOMAIN PREFIX_PATTERNS[t].patterns :
        /\ PatternMatches(PREFIX_PATTERNS, t, p, s)
        /\ \A q \in 1..(p - 1) : ~PatternMatches(PREFIX_PATTERNS, t, q, s)

\* C1 as stated: whenever a prefix pattern of type T matches the trimmed
\* text, the capture has type T and its prefix is the text a pattern of T
\* matched.
C1_AnyMatchingTypeWins ==
    Parsed =>
        \A t \in DOMAIN PREFIX_PATTERNS :
            TypeMatches(PREFIX_PATTERNS, t, Text) =>
                /\ capture.capture_type = PREFIX_PATTERNS[t].type
                /\ capture.prefix \in MatchedTexts(t, Text)

\* C1, amended: whenever a prefix pattern of type T matches the trimmed
\* text and no pattern of a type listed before T does, the capture has type
\* T and its prefix is the leftmost text matched by the first listed pattern
\* of T that matches.
C1_FirstMatchingTypeWins ==
    Parsed =>
        \A t \in DOMAIN PREFIX_PATTERNS :
            ( /\ TypeMatches(PREFIX_PATTERNS, t, Text)
              /\ \A u \in 1..(t - 1) : ~TypeMatches(PREFIX_PATTERNS, u, Text) )
            =>
                /\ capture.capture_type = PREFIX_PATTERNS[t].type
                /\ capture.prefix =
                      group0(Text,
                             search(PREFIX_PATTERNS[t].patterns[
                                        FirstPattern(t, Text)], Text, TRUE))

\* C1 witness: "Todo:" found in mixed case after other text.
C1_Witness ==
    /\ Parsed
    /\ Text # <<>>
    /\ Head(Text) = "x"
    /\ capture.capture_type = "todo"
    /\ capture.prefix = <<"T", "o", "d", "o", ":">>

HTTP == <<"h", "t", "t", "p", ":", "/", "/">>

HTTPS == <<"h", "t", "t", "p", "s", ":", "/", "/">>

\* s holds the text lit at position i
HasAt(s, i, lit) ==
    /\ i + Len(lit) - 1 <= Len(s)
    /\ SubSeq(s, i, i + Len(lit) - 1) = lit

\* s contains http:// or https://
ContainsScheme(s) ==
    \E i \in 1..Len(s) : HasAt(s, i, HTTP) \/ HasAt(s, i, HTTPS)

\* s contains http:// or https:// with a character other than whitespace
\* right after it
ContainsUrl(s) ==
    \E i \in 1..Len(s) : \E lit \in {HTTP, HTTPS} :
        /\ HasAt(s, i, lit)
        /\ i + Len(lit) <= Len(s)
        /\ s[i + Len(lit)] \notin Whitespace

\* nothing but the trimmed text as content and no prefix, under type t
IsWholeText(t) ==
    /\ capture.capture_type = t
    /\ capture.content = Text
    /\ capture.prefix = <<>>

\* C2 as stated: a text that no prefix and no phrase pattern matches and
\* that contains http:// or https:// is a bookmark whose content is the
\* whole trimmed text, with no prefix.
C2_SchemeMakesBookmark ==
    (Parsed /\ NoPrefixMatch(Text) /\ NoPhraseMatch(Text)
        /\ ContainsScheme(Text))
    => IsWholeText("bookmark")

\* C2, amended: a text that no prefix and no phrase pattern matches and
\* that contains http:// or https:// followed at once by a character that is
\* not whitespace is a bookmark whose content is the whole trimmed text,
\* with no prefix.
C2_UrlMakesBookmark ==
    (Parsed /\ NoPrefixMatch(Text) /\ NoPhraseMatch(Text)
        /\ ContainsUrl(Text))
    => IsWholeText("bookmark")

\* C2 witness: a URL in the middle of a text nothing else matches.
C2_Witness ==
    /\ Parsed
    /\ NoPrefixMatch(Text)
    /\ NoPhraseMatch(Text)
    /\ HasAt(Text, 2, HTTP)
    /\ Head(Text) = "x"
    /\ Len(Text) > 8
    /\ IsWholeText("bookmark")

\* the quote heuristic is the first rule that applies to s
QuoteRuleDecides(s) ==
    /\ NoPrefixMatch(s)
    /\ NoPhraseMatch(s)
    /\ ~ContainsUrl(s)
    /\ s # <<>>
    /\ Head(s) \in QuoteChars

\* c is s without its leading and trailing characters of chars: what is
\* cut off on both sides lies in chars, and c neither starts nor ends in it
IsStripped(s, c, chars) ==
    \E a \in 0..Len(s) : \E b \in 0..(Len(s) - a) :
        /\ \A k \in 1..a : s[k] \in chars
        /\ \A k \in (Len(s) - b + 1)..Len(s) : s[k] \in chars
        /\ c = SubSeq(s, a + 1, Len(s) - b)
        /\ c # <<>> => (c[1] \notin chars /\ c[Len(c)] \notin chars)

\* C3 as stated: a text starting with a quote mark that no higher rule
\* matches is a quote whose content is the trimmed text with one leading
\* and one trailing quote mark removed where present.
C3_OneQuoteMarkStripped ==
    (Parsed /\ QuoteRuleDecides(Text))
    => (capture.capture_type = "quote" /\ capture.content = StripOne(Text))

\* C3, amended: a text starting with a quote mark that no higher rule
\* matches is a quote whose content is the trimmed text with all its leading
\* and all its trailing quote marks removed, with no prefix.
C3_AllQuoteMarksStripped ==
    (Parsed /\ QuoteRuleDecides(Text))
    => /\ capture.capture_type = "quote"
       /\ capture.prefix = <<>>
       /\ IsStripped(Text, capture.content, QuoteChars)

\* C3 witness: two leading quote marks are stripped from a quote.
C3_Witness ==
    /\ Parsed
    /\ QuoteRuleDecides(Text)
    /\ capture.capture_type = "quote"
    /\ capture.content # <<>>
    /\ Len(Text) >= Len(capture.content) + 2

\* C4: when the trimmed text is not empty, the content of the capture is
\* not empty, whichever rule decided.
C4_ContentNotEmpty ==
    (Parsed /\ Text # <<>>) => capture.content # <<>>

\* no rule applies to s: the default decides
DefaultDecides(s) ==
    /\ NoPrefixMatch(s)
    /\ NoPhraseMatch(s)
    /\ ~ContainsUrl(s)
    /\ ~(s # <<>> /\ Head(s) \in QuoteChars)

\* C5: every message, the empty and the blank ones included, is given a
\* Capture of a declared type that carries the source; when no prefix,
\* phrase, URL or quote rule applies it is a note whose content is the
\* trimmed text, with no prefix.
C5_AlwaysACaptureDefaultNote ==
    Parsed =>
        /\ capture.capture_type \in CaptureTypes
        /\ capture.source = source
        /\ DefaultDecides(Text) => IsWholeText("note")

\* C5 witness: a text with blanks around it that no rule matches becomes a
\* note holding the trimmed text.
C5_Witness ==
    /\ Parsed
    /\ DefaultDecides(Text)
    /\ Text # <<>>
    /\ Len(message) >= Len(Text) + 2
    /\ IsWholeText("note")

----------------------------------------------------------------------------
(* Properties of the router, checked under SpecRoute. *)

\* a step that is one route call
RouteStep == pc = "parsed" /\ pc' = "routed"

\* the dispatch table of the router: the sink of each capture type
SinkOf(t) ==
    CASE t \in {"idea", "bookmark", "quote"} -> "ideas"
      [] t \in {"note", "brain_dump"} -> "daily"
      [] t \in {"todo", "task", "reminder"} -> "tasks"
      [] OTHER -> "none"

\* the path a successful call reports for capture type t on day d
SinkPath(t, d) ==
    CASE SinkOf(t) = "ideas" -> ideas_path
      [] SinkOf(t) = "daily" -> note_file(d)
      [] SinkOf(t) = "tasks" -> para_db
      [] OTHER -> "none"

\* the failures of the file system and of the database
IOCauses == {"create", "append", "connect", "insert", "commit"}

\* the failures raised by the capture's own fields
DataCauses == {"convert", "format"}

\* journal file after is file before, created with header when it was
\* absent, with one whole entry of kind t appended
EntryAppended(before, after, header, t) ==
    LET base == IF before.exists THEN before.data ELSE <<header>>
    IN /\ after.exists
       /\ Len(after.data) = Len(base) + 1
       /\ SubSeq(after.data, 1, Len(base)) = base
       /\ after.data[Len(after.data)].kind = t

\* a step in which the sink of capture type t received its one write
SinkWritten(t) ==
    CASE SinkOf(t) = "ideas" ->
             EntryAppended(ideas_file, ideas_file', IdeasHeader, t)
      [] SinkOf(t) = "daily" ->
             EntryAppended(daily_notes[today], daily_notes'[today],
                           DailyHeader(strftime(today)), t)
      [] SinkOf(t) = "tasks" ->
             /\ Len(tasks') = Len(tasks) + 1
             /\ SubSeq(tasks', 1, Len(tasks)) = tasks
             /\ tasks'[Len(tasks')].category =
                   (IF t = "reminder" THEN "reminder" ELSE "task")
             /\ tasks'[Len(tasks')].description = capture.content
      [] OTHER -> FALSE

\* C6: for every capture type but unknown, a route call reports the one
\* sink of that type as destination, returns success exactly when that sink
\* received its entry, and returns failure with a non-empty error when a
\* file or database operation is made to fail.
C6_RoutingComplete ==
    [][(RouteStep /\ capture.capture_type # "unknown") =>
          /\ SinkOf(capture.capture_type) \in {"ideas", "daily", "tasks"}
          /\ result'.destination = SinkPath(capture.capture_type, today)
          /\ result'.success <=> SinkWritten(capture.capture_type)
          /\ cause' \in IOCauses =>
                (~result'.success /\ result'.error \notin {NoError, ""})
      ]_vars

\* C6 witness: after a call that wrote the task store, a quote fails on
\* the append to the ideas journal.
C6_Witness ==
    /\ pc = "routed"
    /\ calls = 2
    /\ tasks # <<>>
    /\ capture.capture_type = "quote"
    /\ cause = "append"
    /\ ~result.success

\* the text of the exception that step raises, for a capture of type t
FailureTexts(step, t) ==
    CASE step \in IOCauses -> {IOErrorText[step]}
      [] step = "convert" -> {"Invalid isoformat string"}
      [] step = "format" ->
             {"object of type 'NoneType' has no len()",
              "'NoneType' object has no attribute 'strip'",
              "'NoneType' object is not subscriptable"}
      [] OTHER -> {}

\* C7: whatever step of a route call fails (creating the file, formatting,
\* converting the due date, connecting, inserting, committing, appending),
\* the call returns a RouteResult with success false, the text of the
\* failure as error, and the destination a successful call reports.
C7_FailuresAreReturned ==
    [][(RouteStep /\ cause' \in IOCauses \cup DataCauses) =>
          /\ result'.success = FALSE
          /\ result'.error \in FailureTexts(cause', capture.capture_type)
          /\ result'.destination = SinkPath(capture.capture_type, today)
      ]_vars

\* C7 witness: a reminder whose due date is no ISO date fails in the
\* conversion and reports the task store.
C7_Witness ==
    /\ pc = "routed"
    /\ capture.capture_type = "reminder"
    /\ capture.due_date = MalformedDate
    /\ cause = "convert"
    /\ result = RouteResult(FALSE, para_db, "Invalid isoformat string")

\* C8: the error of a RouteResult is None exactly when success is true, and
\* is a non-empty text when success is false.
C8_ErrorIffFailure ==
    pc = "routed" =>
        /\ result.success <=> result.error = NoError
        /\ ~result.success => result.error # ""

\* C8 witness: a failed insert returns the database's message.
C8_Witness ==
    /\ pc = "routed"
    /\ ~result.success
    /\ cause = "insert"
    /\ result.error = "no such table: tasks"

\* no sink changes in the step
SinksUnchanged == UNCHANGED <<ideas_file, daily_notes, tasks>>

\* what route returns for a capture of type unknown, and no sink written
UnknownRejected ==
    (RouteStep /\ capture.capture_type = "unknown") =>
        /\ result' = RouteResult(FALSE, "none",
                                 "Unknown capture type: unknown")
        /\ SinksUnchanged

C10_AtMostOneSinkWritten ==
    [][RouteStep =>
          LET sink == SinkOf(capture.capture_type)
          IN /\ sink # "ideas" => ideas_file' = ideas_file
             /\ sink # "tasks" => tasks' = tasks
             /\ \A d \in Days :
                   (sink # "daily" \/ d # today) =>
                       daily_notes'[d] = daily_notes[d]
      ]_vars

\* C10 witness: a todo is stored while the ideas journal written by an
\* earlier call exists.
C10_Witness ==
    /\ pc = "routed"
    /\ calls = 2
    /\ ideas_file.exists
    /\ Len(ideas_file.data) = 2
    /\ capture.capture_type = "todo"
    /\ result.success
    /\ Len(tasks) = 1

----------------------------------------------------------------------------
(* Properties of the two passes over the content, checked under            *)
(* SpecRespond.                                                            *)

\* s contains the text lit
Contains(s, lit) == \E i \in 1..Len(s) : HasAt(s, i, lit)

\* s with its letters folded to lower case
FoldText(s) == [k \in 1..Len(s) |-> Fold(s[k], TRUE)]

\* s without regard to case contains the text lit
ContainsFolded(s, lit) == Contains(FoldText(s), lit)

AtlasTag ==
    <<"[", "P", "r", "o", "j", "e", "c", "t", ":", " ", "A", "t", "l", "a",
      "s", "]", " ", "s", "h", "i", "p", " ", "t", "h", "e", " ", "r", "e",
      "p", "o", "r", "t">>

Atlas == <<"A", "t", "l", "a", "s">>

\* s holds the Atlas tag at position i and no opening of a project tag
\* before it
FirstTagIsAtlas(s) ==
    \E i \in 1..Len(s) :
        /\ HasAt(s, i, AtlasTag)
        /\ \A j \in 1..(i - 1) : ~HasAt(FoldText(s), j, PROJECT_TAG_OPEN)

\* C11 as stated: every message that contains "[Project: Atlas] ship the
\* report" is given the project "Atlas", whatever its capture type.
C11_TagInMessageGivesProject ==
    (Parsed /\ Contains(message, AtlasTag)) => capture.project = Atlas

\* C11, amended: every message whose content, as classification leaves it,
\* contains "[Project: Atlas] ship the report" with no project tag opening
\* before it is given the project "Atlas", whatever its capture type.
C11_TagInContentGivesProject ==
    (Parsed /\ FirstTagIsAtlas(capture.content)) => capture.project = Atlas

\* C11 witness: a bookmark whose content holds the tag after a URL.
C11_Witness ==
    /\ Parsed
    /\ capture.capture_type = "bookmark"
    /\ HasAt(capture.content, 10, AtlasTag)
    /\ capture.project = Atlas

\* a step that is one call of parse_capture, the first or a later one
ParseStep ==
    \/ pc = "received" /\ pc' = "parsed"
    \/ pc = "parsed" /\ pc' = "parsed" /\ today' = today

Tomorrow == <<"t", "o", "m", "o", "r", "r", "o", "w">>

\* C12 as stated: every message that contains the word "tomorrow" is given
\* as due_date the ISO date of the day after the day it is parsed on.
C12_TomorrowInMessageGivesDate ==
    [][(ParseStep /\ Contains(message, Tomorrow)) =>
          capture'.due_date = isoformat(today + 1)
      ]_vars

\* C12, amended: every message whose content, as classification leaves it,
\* contains "tomorrow" in any letter case is given as due_date the ISO date
\* of the day after the day it is parsed on.
C12_TomorrowInContentGivesDate ==
    [][(ParseStep /\ ContainsFolded(capture'.content, Tomorrow)) =>
          capture'.due_date = isoformat(today + 1)
      ]_vars

\* C12 witness: a todo parsed on day 1 whose content holds "tomorrow" is
\* due on day 2.
C12_Witness ==
    /\ Parsed
    /\ capture.capture_type = "todo"
    /\ capture.prefix = <<"t", "o", "d", "o", ":">>
    /\ ContainsFolded(capture.content, Tomorrow)
    /\ capture.due_date = isoformat(2)

\* a step that is a second call of parse_capture on the same message
ReparseStep == pc = "parsed" /\ pc' = "parsed" /\ today' = today

\* the due date is an ISO date
IsDate(due) == due # None /\ due[1] = "iso"

----------------------------------------------------------------------------
(* The end-to-end scenarios, checked under SpecRespond. *)

\* the message has been routed
Routed == pc \in {"routed", "responded"}

SimplicityText ==
    <<"s", "i", "m", "p", "l", "i", "c", "i", "t", "y", " ", "i", "s", " ",
      "t", "h", "e", " ", "u", "l", "t", "i", "m", "a", "t", "e", " ", "s",
      "o", "p", "h", "i", "s", "t", "i", "c", "a", "t", "i", "o", "n">>

\* C14: the message "simplicity is the ultimate sophistication" wrapped in
\* double quotes is classified as a quote whose content is the text without
\* the leading and the trailing quote mark, and is routed to the ideas
\* journal.
C14_QuotedTextIsStrippedQuote ==
    (pc # "received" /\ message = <<"\"">> \o SimplicityText \o <<"\"">>) =>
        /\ capture.capture_type = "quote"
        /\ capture.content = SimplicityText
        /\ Routed => result.destination = ideas_path

RemindJohn ==
    <<"r", "e", "m", "i", "n", "d", " ", "m", "e", " ", "t", "o", " ", "c",
      "a", "l", "l", " ", "J", "o", "h", "n", " ", "t", "o", "m", "o", "r",
      "r", "o", "w">>

CallJohnTomorrow == SubSeq(RemindJohn, 14, Len(RemindJohn))

\* C15: the message "remind me to call John tomorrow" is classified as a
\* reminder with content "call John tomorrow" and the day after the day of
\* parsing as due_date, and a route call whose database operations succeed
\* reports the task store and adds to it one row with category "reminder",
\* status "pending" and the epoch timestamp of that day as due_date.
C15_RemindJohnScenario ==
    [][message = RemindJohn =>
          /\ ParseStep =>
                capture' = [capture_type |-> "reminder",
                            content |-> CallJohnTomorrow,
                            prefix |-> SubSeq(RemindJohn, 1, 13),
                            project |-> None,
                            due_date |-> isoformat(today + 1),
                            source |-> source]
          /\ (RouteStep /\ cause' = "none") =>
                /\ result' = RouteResult(TRUE, para_db, NoError)
                /\ tasks' = Append(tasks,
                      [title |-> CallJohnTomorrow,
                       description |-> CallJohnTomorrow,
                       category |-> "reminder", status |-> "pending",
                       due_date |-> <<capture.due_date[2] * 86400>>])
      ]_vars

\* C15 witness: the reminder parsed on day 0 and routed on day 1 is stored
\* as due at the start of day 1.
C15_Witness ==
    /\ pc = "routed"
    /\ message = RemindJohn
    /\ today = 1
    /\ result.success
    /\ Len(tasks) = 1
    /\ tasks[1].category = "reminder"
    /\ tasks[1].due_date = <<86400>>

----------------------------------------------------------------------------
(* Properties of the router's rows and destinations, checked under         *)
(* SpecRoute.                                                              *)

\* the first n characters of s, or all of s when it has fewer
FirstChars(s, n) == SubSeq(s, 1, IF Len(s) < n THEN Len(s) ELSE n)

\* the row the task store is to hold for capture c
ExpectedRow(c) ==
    [title |-> FirstChars(c.content, 100),
     description |-> c.content,
     category |-> IF c.capture_type = "reminder" THEN "reminder" ELSE "task",
     status |-> "pending",
     due_date |-> IF c.due_date = None THEN <<>>
                  ELSE <<c.due_date[2] * 86400>>]

\* C16: a successful route of a todo, task or reminder capture adds exactly
\* one row to the task store: title the first 100 characters of the content,
\* description the whole content, category "task" ("reminder" for a
\* reminder), status "pending", due_date the epoch timestamp of the
\* capture's due_date, or null when the capture has none.
C16_TaskRowShape ==
    [][(RouteStep /\ result'.success
           /\ capture.capture_type \in {"todo", "task", "reminder"}) =>
          tasks' = Append(tasks, ExpectedRow(capture))
      ]_vars

\* C16 witness: a reminder with a content of 101 characters is stored
\* under a title of 100, after a todo without due date was.
C16_Witness ==
    /\ pc = "routed"
    /\ result.success
    /\ Len(tasks) = 2
    /\ tasks[1].category = "task"
    /\ tasks[1].due_date = <<>>
    /\ tasks[2].category = "reminder"
    /\ Len(tasks[2].title) = 100
    /\ Len(tasks[2].description) = 101
    /\ tasks[2].due_date = <<0>>

\* the destination the router's table gives capture type t on day d
TableDestination(t, d) ==
    CASE t \in {"idea", "bookmark", "quote"} ->
             "/home/liam/clawd/memory/ideas.md"
      [] t \in {"note", "brain_dump"} ->
             "/home/liam/clawd/memory/" \o strftime(d) \o ".md"
      [] t \in {"todo", "task", "reminder"} ->
             "/home/liam/clawd/memory/para.sqlite"
      [] OTHER -> "none"

\* the captures a daily journal holds were all routed on its own day
HoldsOwnDayOnly(file, d) ==
    \A k \in DOMAIN file.data :
        file.data[k].kind \in {"note", "brain_dump"} =>
            file.data[k].time = d

\* C17: the destination a route call reports is fixed by the capture type
\* and the day of the call: the ideas journal for idea, bookmark and quote,
\* the daily journal named by the day for note and brain_dump, the task
\* store for todo, task and reminder, whatever the other fields of the
\* capture and whether the call succeeds; the daily journals of
\* different days have different names, and each holds only captures
\* routed on its own day.
C17_DestinationByTypeAndDay ==
    [][RouteStep =>
          /\ result'.destination =
                TableDestination(capture.capture_type, today)
          /\ \A c \in RouteCaptures : \A env \in Envs :
                c.capture_type = capture.capture_type =>
                    route(c, env).result.destination = result'.destination
          /\ \A d \in Days : \A e \in Days :
                d # e => note_file(d) # note_file(e)
          /\ \A d \in Days : HoldsOwnDayOnly(daily_notes'[d], d)
      ]_vars

\* C17 witness: a note routed on day 0 and a brain dump routed on day 1
\* lie in two daily journals.
C17_Witness ==
    /\ pc = "routed"
    /\ today = 1
    /\ capture.capture_type = "brain_dump"
    /\ result = RouteResult(TRUE, note_file(1), NoError)
    /\ Len(daily_notes[0].data) = 2
    /\ daily_notes[0].data[2].kind = "note"
    /\ Len(daily_notes[1].data) = 2
    /\ daily_notes[1].data[2].kind = "brain_dump"

----------------------------------------------------------------------------
(* Properties of the response, checked under SpecRespond. *)

\* the acknowledgment of capture type t
Acknowledgment(t) ==
    CASE t = "idea" -> "Got it. Added to ideas."
      [] t = "todo" -> "Got it. Added task."
      [] t = "note" -> "Noted."
      [] t = "reminder" -> "Got it. Set reminder."
      [] t = "bookmark" -> "Saved the link."
      [] t = "quote" -> "Captured the quote."
      [] t = "brain_dump" -> "Got it all."
      [] OTHER -> "Got it."

\* the annotations of a response, given whether each is made
Annotations(c, with_project, with_due) ==
    (IF with_project THEN " Project: " \o str(c.project) ELSE "")
    \o (IF with_due THEN " Due: " \o DateText(c.due_date) ELSE "")

\* C18 as stated: the response to a failed route is "could not capture
\* that: " followed by the error, with nothing else; the response to a
\* successful one is the acknowledgment of the capture type, followed by the
\* project exactly when the capture has one and by the due date exactly
\* when it has one.
C18_CouldNotCaptureResponse ==
    pc = "responded" =>
        response =
            IF ~result.success
            THEN "could not capture that: " \o result.error
            ELSE Acknowledgment(capture.capture_type)
                 \o Annotations(capture, capture.project # None,
                                capture.due_date # None)

\* C18, amended: the response to a failed route is "Sorry, couldn't capture
\* that: " followed by the error, with nothing else; the response to a
\* successful one is the acknowledgment of the capture type, followed by the
\* project exactly when the capture has one that is not the empty text and
\* by the due date exactly when it has one.
C18_SorryCouldntCaptureResponse ==
    pc = "responded" =>
        response =
            IF ~result.success
            THEN "Sorry, couldn't capture that: " \o result.error
            ELSE Acknowledgment(capture.capture_type)
                 \o Annotations(capture,
                                capture.project \notin {None, <<>>},
                                capture.due_date # None)

\* C18 witness: a todo with a project whose commit failed is answered with
\* the apology and the database's message only.
C18_Witness ==
    /\ pc = "responded"
    /\ capture.capture_type = "todo"
    /\ capture.project = Atlas
    /\ ~result.success
    /\ response = "Sorry, couldn't capture that: database is locked"

----------------------------------------------------------------------------
(* Properties of the precedence among the prefix patterns, checked under   *)
(* Spec.                                                                   *)

\* the prefix types, by their place in the table, that have a pattern
\* matching s
MatchingTypes(s) ==
    {t \in DOMAIN PREFIX_PATTERNS : TypeMatches(PREFIX_PATTERNS, t, s)}

\* the first of them in table order
WinningType(s) ==
    CHOOSE t \in MatchingTypes(s) : \A u \in MatchingTypes(s) : t <= u

\* the place in s where the match of pattern p of prefix type t starts
MatchStart(t, p, s) == search(PREFIX_PATTERNS[t].patterns[p], s, TRUE).start

\* C19: when prefix patterns of two or more types match the trimmed text,
\* the capture has the type that comes first in the order idea, todo,
\* note, reminder, bookmark, quote, brain_dump, wherever the matches lie,
\* and its prefix is the text matched by the first listed pattern of that
\* type that matches.
C19_TypeOrderBeatsPosition ==
    (Parsed /\ Cardinality(MatchingTypes(Text)) >= 2) =>
        LET w == WinningType(Text)
            p == FirstPattern(w, Text)
        IN /\ PREFIX_PATTERNS[w].type \in
                 {"idea", "todo", "note", "reminder", "bookmark", "quote"}
           /\ capture.capture_type = PREFIX_PATTERNS[w].type
           /\ \A u \in MatchingTypes(Text) :
                 u # w => capture.capture_type # PREFIX_PATTERNS[u].type
           /\ capture.prefix =
                 SubSeq(Text, MatchStart(w, p, Text),
                        MatchStart(w, p, Text) + Len(capture.prefix) - 1)
           /\ MatchFrom(PREFIX_PATTERNS[w].patterns[p], 1, Text,
                        MatchStart(w, p, Text), TRUE)
                 = MatchStart(w, p, Text) + Len(capture.prefix)

\* C19 witness: a text that begins with "Todo:" and holds "idea" later is
\* an idea with prefix "idea".
C19_Witness ==
    /\ Parsed
    /\ HasAt(Text, 1, <<"T", "o", "d", "o", ":">>)
    /\ HasAt(Text, Len(Text) - 3, <<"i", "d", "e", "a">>)
    /\ capture.capture_type = "idea"
    /\ capture.prefix = <<"i", "d", "e", "a">>

----------------------------------------------------------------------------
(* Properties of the precedence among the rule classes, checked under      *)
(* SpecRespond.                                                            *)

\* the first rule class, in the order prefix, phrase, URL, quote, default,
\* that has a match in s
RuleClass(s) ==
    IF ~NoPrefixMatch(s) THEN "prefix"
    ELSE IF ~NoPhraseMatch(s) THEN "phrase"
    ELSE IF ContainsUrl(s) THEN "url"
    ELSE IF s # <<>> /\ Head(s) \in QuoteChars THEN "quote"
    ELSE "default"

\* the type the phrase patterns give s: todo before idea before note
PhraseType(s) ==
    IF TypeMatches(PHRASE_PATTERNS, 1, s) THEN "todo"
    ELSE IF TypeMatches(PHRASE_PATTERNS, 2, s) THEN "idea"
    ELSE "note"

\* C20: the rule classes apply in the order prefix, phrase, URL heuristic,
\* quote heuristic, default, and the first class that has a match decides:
\* a prefix match gives the prefix type and a prefix; failing that a phrase
\* match gives the first matching phrase type in the order todo, idea, note
\* and no prefix, even when the text holds a URL; failing that a URL gives a
\* bookmark; failing that a leading quote mark gives a quote; failing that
\* the capture is a note.
C20_RuleClassPrecedence ==
    Parsed =>
        CASE RuleClass(Text) = "prefix" ->
                 /\ capture.capture_type =
                       PREFIX_PATTERNS[WinningType(Text)].type
                 /\ capture.prefix # <<>>
          [] RuleClass(Text) = "phrase" ->
                 /\ capture.capture_type = PhraseType(Text)
                 /\ capture.prefix = <<>>
          [] RuleClass(Text) = "url" -> IsWholeText("bookmark")
          [] RuleClass(Text) = "quote" ->
                 /\ capture.capture_type = "quote"
                 /\ capture.prefix = <<>>
          [] OTHER -> IsWholeText("note")

\* C20 witness: a text that holds a URL and "need to" after it is a todo
\* by the phrase patterns, its content starting at the phrase.
C20_Witness ==
    /\ Parsed
    /\ ContainsUrl(Text)
    /\ TypeMatches(PHRASE_PATTERNS, 1, Text)
    /\ capture.capture_type = "todo"
    /\ capture.prefix = <<>>
    /\ capture.content = <<"n", "e", "e", "d", " ", "t", "o", " ", "x">>

----------------------------------------------------------------------------
(* Properties of the content a prefix match leaves, checked under         *)
(* SpecRespond.                                                            *)

\* the place in s after the match of pattern p of prefix type t
MatchEnd(t, p, s) == search(PREFIX_PATTERNS[t].patterns[p], s, TRUE).end

\* s without the blanks around it: s from its first to its last character
\* that is no blank
Trimmed(s) ==
    LET inked == {i \in 1..Len(s) : s[i] \notin Whitespace}
    IN IF inked = {} THEN <<>>
       ELSE SubSeq(s, CHOOSE i \in inked : \A j \in inked : i <= j,
                      CHOOSE i \in inked : \A j \in inked : i >= j)

\* C21: when a prefix pattern matches, the prefix is the matched text and
\* the content is the trimmed text after the end of the match, whatever
\* stands before the match; when nothing but blanks follows the match, the
\* content is the trimmed text after the first len(prefix) characters of
\* the message, counted from its start.
C21_PrefixContent ==
    (Parsed /\ ~NoPrefixMatch(Text)) =>
        LET w == WinningType(Text)
            p == FirstPattern(w, Text)
            from == MatchStart(w, p, Text)
            to == MatchEnd(w, p, Text)
            rest == Trimmed(SubSeq(Text, to, Len(Text)))
        IN /\ capture.prefix = SubSeq(Text, from, to - 1)
           /\ capture.content =
                 IF rest # <<>> THEN rest
                 ELSE Trimmed(SubSeq(Text, (to - from) + 1, Len(Text)))

\* C21 witness: "idea" ends the text after other characters, and the
\* content is what follows the first four characters of the text.
C21_Witness ==
    /\ Parsed
    /\ Len(Text) > 4
    /\ capture.prefix = <<"i", "d", "e", "a">>
    /\ HasAt(Text, Len(Text) - 3, <<"i", "d", "e", "a">>)
    /\ ~HasAt(Text, 1, <<"i", "d", "e", "a">>)
    /\ capture.content = SubSeq(Text, 5, Len(Text))
    /\ capture.content # <<>>

----------------------------------------------------------------------------
(* Properties of the content a phrase match leaves, checked under         *)
(* SpecRespond.                                                            *)

\* the entry of PHRASE_PATTERNS that decides s: the first with a match
WinningPhrase(s) ==
    CHOOSE t \in DOMAIN PHRASE_PATTERNS :
        /\ TypeMatches(PHRASE_PATTERNS, t, s)
        /\ \A u \in 1..(t - 1) : ~TypeMatches(PHRASE_PATTERNS, u, s)

\* the place in s where the first matching pattern of phrase entry t starts
PhraseStart(t, s) ==
    LET p == CHOOSE q \in DOMAIN PHRASE_PATTERNS[t].patterns :
                 /\ PatternMatches(PHRASE_PATTERNS, t, q, s)
                 /\ \A r \in 1..(q - 1) :
                        ~PatternMatches(PHRASE_PATTERNS, t, r, s)
    IN search(PHRASE_PATTERNS[t].patterns[p], s, TRUE).start

\* C22: when no prefix pattern matches and a phrase pattern does, the
\* content is the trimmed message from the start of the phrase match on
\* (the phrase is kept, the text before it is dropped) and the prefix is
\* empty.
C22_PhraseContent ==
    (Parsed /\ NoPrefixMatch(Text) /\ ~NoPhraseMatch(Text)) =>
        /\ capture.prefix = <<>>
        /\ capture.content =
              SubSeq(Text, PhraseStart(WinningPhrase(Text), Text), Len(Text))

\* C22 witness: "need to" follows other text, which the content drops
\* while it keeps the phrase.
C22_Witness ==
    /\ Parsed
    /\ NoPrefixMatch(Text)
    /\ capture.prefix = <<>>
    /\ capture.capture_type = "todo"
    /\ ~HasAt(Text, 1, <<"n", "e", "e", "d", " ", "t", "o">>)
    /\ HasAt(capture.content, 1, <<"n", "e", "e", "d", " ", "t", "o">>)
    /\ Len(capture.content) < Len(Text)

----------------------------------------------------------------------------
(* The project and the due date as functions of the content alone, checked *)
(* under SpecRespond.                                                      *)

\* a project tag opens at place i of c: "[project:" in any letter case, then
\* a character other than "]", and a "]" further on
TagOpensAt(c, i) ==
    /\ HasAt(FoldText(c), i, PROJECT_TAG_OPEN)
    /\ i + Len(PROJECT_TAG_OPEN) <= Len(c)
    /\ c[i + Len(PROJECT_TAG_OPEN)] # "]"
    /\ \E j \in (i + Len(PROJECT_TAG_OPEN) + 1)..Len(c) : c[j] = "]"

\* the project the content c names: what stands between the ":" and the
\* next "]" of the leftmost tag, trimmed
ProjectOf(c) ==
    IF \A i \in 1..Len(c) : ~TagOpensAt(c, i) THEN None
    ELSE LET i == CHOOSE k \in 1..Len(c) :
                      TagOpensAt(c, k) /\ \A h \in 1..(k - 1) : ~TagOpensAt(c, h)
             from == i + Len(PROJECT_TAG_OPEN)
             to == CHOOSE j \in (from + 1)..Len(c) :
                       c[j] = "]" /\ \A h \in from..(j - 1) : c[h] # "]"
         IN Trimmed(SubSeq(c, from, to - 1))

Today == <<"t", "o", "d", "a", "y">>

\* c holds "next", blanks, "week" in any letter case
HasNextWeek(c) ==
    \E i \in 1..Len(c) : \E j \in (i + 5)..Len(c) :
        /\ HasAt(FoldText(c), i, <<"n", "e", "x", "t">>)
        /\ \A h \in (i + 4)..(j - 1) : c[h] \in Whitespace
        /\ HasAt(FoldText(c), j, <<"w", "e", "e", "k">>)

\* the due date the content c names on day now
DueOf(c, now) ==
    IF ContainsFolded(c, Tomorrow) THEN isoformat(now + 1)
    ELSE IF ContainsFolded(c, Today) THEN isoformat(now)
    ELSE IF HasNextWeek(c) THEN isoformat(now + 7)
    ELSE None

\* C23: whichever rule fired, project and due_date are what the content
\* alone names on the day of the call, so that equal contents get equal
\* fields; a content without the opening of a project tag has no project
\* and a content without a date keyword has no due date, whatever the part
\* of the message that the content leaves out holds.
C23_FieldsFromContentOnly ==
    [][ParseStep =>
          /\ capture'.project = ProjectOf(capture'.content)
          /\ capture'.due_date = DueOf(capture'.content, today)
          /\ ~ContainsFolded(capture'.content, PROJECT_TAG_OPEN) =>
                 capture'.project = None
          /\ (/\ ~ContainsFolded(capture'.content, Tomorrow)
              /\ ~ContainsFolded(capture'.content, Today)
              /\ ~HasNextWeek(capture'.content)) =>
                 capture'.due_date = None
      ]_vars

\* C23 witness: the message holds the Atlas tag, the content has lost the
\* opening of the tag to the fallback after a prefix match, and the capture
\* has no project.
C23_Witness ==
    /\ Parsed
    /\ Contains(Text, AtlasTag)
    /\ capture.prefix # <<>>
    /\ ~ContainsFolded(capture.content, PROJECT_TAG_OPEN)
    /\ capture.project = None

----------------------------------------------------------------------------
(* The precedence of the due-date keywords, checked under SpecDue.         *)

\* C24: the keywords are tried in the order tomorrow, today, next week and
\* the first that occurs anywhere in the content decides: a content with
\* "tomorrow" is due the day after the call, also when it holds "today";
\* failing that a content with "today" is due the day of the call, also
\* when it holds "next week"; failing that a content with "next week" is
\* due seven days on; a content with none of them has no due date.
C24_DueKeywordPrecedence ==
    [][ParseStep =>
          LET c == capture'.content
              due == capture'.due_date
          IN /\ ContainsFolded(c, Tomorrow) => due = isoformat(today + 1)
             /\ (ContainsFolded(c, Today) /\ ~ContainsFolded(c, Tomorrow)) =>
                    due = isoformat(today)
             /\ (/\ HasNextWeek(c)
                 /\ ~ContainsFolded(c, Today)
                 /\ ~ContainsFolded(c, Tomorrow)) =>
                    due = isoformat(today + 7)
             /\ (/\ ~HasNextWeek(c)
                 /\ ~ContainsFolded(c, Today)
                 /\ ~ContainsFolded(c, Tomorrow)) =>
                    due = None
      ]_vars

\* C24 witness: the content holds "today" ahead of "tomorrow" and is due
\* the day after the call.
C24_Witness ==
    /\ Parsed
    /\ \E i \in 1..Len(capture.content) :
          /\ HasAt(FoldText(capture.content), i, Today)
          /\ \E j \in (i + 1)..Len(capture.content) :
                HasAt(FoldText(capture.content), j, Tomorrow)
          /\ \A j \in 1..i : ~HasAt(FoldText(capture.content), j, Tomorrow)
    /\ capture.due_date = isoformat(today + 1)

----------------------------------------------------------------------------
(* The shape of the journals after sequential calls, checked under         *)
(* SpecRoute.                                                              *)

\* a journal file that exists holds its header once, at the top, and whole
\* blocks after it
HeaderThenBlocks(file, header) ==
    file.exists =>
        /\ file.data # <<>>
        /\ file.data[1] = header
        /\ \A i \in 2..Len(file.data) :
              file.data[i].kind \notin {"header", "truncated"}

\* C25 as stated: after any sequence of route calls made one after the
\* other, each journal that exists consists of its header, written once,
\* followed by the whole blocks of the calls that succeeded.
C25_HeaderOnceThenBlocks ==
    /\ HeaderThenBlocks(ideas_file, IdeasHeader)
    /\ \A d \in Days :
          HeaderThenBlocks(daily_notes[d], DailyHeader(strftime(d)))

----------------------------------------------------------------------------
(* The block of a bookmark, checked under SpecRespond.                     *)

\* the first URL in the text s
UrlIn(s) == group0(s, search(URL_PATTERN, s, FALSE))

\* C26 as stated: the block a bookmark capture appends to the ideas journal
\* shows the URL found in the content, and nothing else, as its title and
\* as its link.
C26_BlockShowsUrlOnly ==
    (/\ pc \in {"routed", "responded"}
     /\ capture.capture_type = "bookmark"
     /\ ContainsUrl(capture.content)
     /\ result.success) =>
        LET block == ideas_file.data[Len(ideas_file.data)]
        IN /\ block.kind = "bookmark"
           /\ block.link = UrlIn(capture.content)
           /\ block.title = UrlIn(capture.content)

----------------------------------------------------------------------------
(* Two route calls at the same time, checked under SpecRace.               *)

\* every process has returned from its route call
AllReturned == \A w \in Writers : writers[w].pc = "done"

\* the journal of process w holds the block of w
BlockPresent(w) ==
    LET file == JournalOf(writers[w].capture)
    IN \E i \in 1..Len(file.data) : file.data[i] = BlockOf(writers[w].capture)

\* C27 as stated: when both calls have returned, the block of every call
\* that returned success is in its journal, however the steps of the two
\* calls were interleaved.
C27_NoSuccessfulBlockLost ==
    AllReturned =>
        \A w \in Writers : writers[w].result.success => BlockPresent(w)

----------------------------------------------------------------------------
(* The types the classifier yields, checked under SpecRespond.             *)

\* the types some rule of parse can yield
ClassifiedTypes ==
    {"idea", "todo", "note", "reminder", "bookmark", "quote", "brain_dump"}

TaskPrefix == <<"t", "a", "s", "k", ":">>

\* C28: classify yields one of idea, todo, note, reminder, bookmark, quote,
\* brain_dump, never task or unknown; a message that opens with "task:"
\* and has no idea prefix is a todo with that prefix; and the route call
\* of capture_message never takes the branch of the unknown type, so it
\* never returns the destination "none".
C28_NeverTaskOrUnknown ==
    /\ pc # "received" => capture.capture_type \in ClassifiedTypes
    /\ (/\ Parsed
        /\ HasAt(FoldText(Text), 1, TaskPrefix)
        /\ ~TypeMatches(PREFIX_PATTERNS, 1, Text)) =>
           /\ capture.capture_type = "todo"
           /\ FoldText(capture.prefix) = TaskPrefix
    /\ pc \in {"routed", "responded"} =>
           /\ result.destination # "none"
           /\ result.error # "Unknown capture type: unknown"

\* C28 witness: "task: review code changes" has been classified todo and
\* routed to the task store.
C28_Witness ==
    /\ pc = "routed"
    /\ HasAt(message, 1, TaskPrefix)
    /\ capture.capture_type = "todo"
    /\ capture.prefix = TaskPrefix
    /\ result.success
    /\ result.destination = para_db

----------------------------------------------------------------------------
(* Quote marks and the order of the rules, checked under Spec.             *)

DoubleQuote == <<"\"">>

\* the prefix types up to quote, in the order of PREFIX_PATTERNS
UpToQuote == {"idea", "todo", "note", "reminder", "bookmark", "quote"}

\* C29: a message whose trimmed text holds a double quote anywhere is
\* decided by the prefix rule: some prefix pattern matches, the prefix is
\* not empty and the type is quote or a prefix type listed before it (no
\* later rule gives its result); and the quote heuristic decides only
\* texts that start with a single quote.
C29_DoubleQuoteIsPrefix ==
    /\ (Parsed /\ Contains(Text, DoubleQuote)) =>
           /\ ~NoPrefixMatch(Text)
           /\ capture.prefix # <<>>
           /\ capture.capture_type \in UpToQuote
           /\ capture.capture_type = "quote" => capture.prefix = DoubleQuote
    /\ (Parsed /\ QuoteRuleDecides(Text)) => Head(Text) = "'"

\* C29 witness: a double quote that does not open the text makes the
\* capture a quote with the quote mark as prefix.
C29_Witness ==
    /\ Parsed
    /\ Text # <<>>
    /\ Head(Text) # "\""
    /\ Contains(Text, DoubleQuote)
    /\ capture.capture_type = "quote"
    /\ capture.prefix = DoubleQuote

----------------------------------------------------------------------------
(* The connections to the task store, checked under SpecRoute.             *)

\* C30 as stated: when a route call has returned, with success or with
\* failure, it has closed every connection to the task store it opened.
C30_ConnectionsClosed ==
    pc = "routed" => open_conns = 0

====
